---- MODULE Spec2Model ----
(***************************************************************************)
(* A model of src/proj.rs: the safe wrapper `Proj` around the native PROJ  *)
(* library.  The native library is the environment: its objects live on a  *)
(* native heap and its functions (proj_create, proj_trans, proj_errno ...) *)
(* are modelled by what the wrapper can observe of them.  The wrapper's    *)
(* methods are operators over that heap, translated from proj.rs.          *)
(***************************************************************************)
EXTENDS Integers, Sequences, FiniteSets, TLC

\* heap:    the native objects ever allocated, by address
\* engines: the Proj values the program holds, None where it holds none
\* origin:  how each held Proj was built (history, for stating the claims)
\* last:    the last call made, its arguments and what it returned
\* calls:   per engine, the call its thread is in the middle of (SpecThreads)
VARIABLES heap, engines, origin, last, calls

vars == <<heap, engines, origin, last, calls>>

(***************************************************************************)
(* Bounds of the model.                                                    *)
(***************************************************************************)
\* number of native objects ever allocated (addresses are never reused)
MaxHeap == 5
\* longest slice handed to convert_array / project_array
MaxBatch == 2

\* the Proj values the program holds: two variables of type Option<Proj>
Slots == {1, 2}
\* coordinates of the input points: 0 is inside every operation's domain,
\* 1 is outside it as a latitude (forward) or as an easting (inverse)
Coord == {0, 1}
Points == Coord \X Coord
\* The z and t members of a PJ_COORD built as `PJ_COORD { lp: .. }` or
\* `PJ_COORD { xy: .. }` are not written by the wrapper (proj.rs 242-246,
\* 323-326, 385-387, 458-460): the native call reads whatever the bytes hold.
Pads == {0, 1}

RECURSIVE SeqsUpTo(_, _)
SeqsUpTo(S, n) ==
    IF n = 0 THEN {<<>>}
    ELSE LET shorter == SeqsUpTo(S, n - 1)
         IN shorter \cup {Append(s, x) : s \in {t \in shorter : Len(t) = n - 1}, x \in S}

Batches == SeqsUpTo(Points, MaxBatch)

(***************************************************************************)
(* Rust values.                                                            *)
(***************************************************************************)
None == <<>>
Some(x) == <<x>>
NULL == 0

\* Result<_, ProjError>; `code` is the errno the message was looked up for.
Ok(v) == [tag |-> "Ok", variant |-> "", code |-> 0, msg |-> "", val |-> v]

(***************************************************************************)
(* The native library.                                                     *)
(***************************************************************************)
PJ_DIRECTION_PJ_FWD == 1
PJ_DIRECTION_PJ_INV == -1
\* "latitude or longitude exceeded limits"
PJD_ERR_LAT_OR_LON_EXCEED_LIMIT == -14
\* "tolerance condition error"
PJD_ERR_TOLERANCE_CONDITION == -20
HUGE_VAL == 1000000

\* the bounding box of a PJ_AREA created by proj_area_create: not set
NoBbox == <<>>
NoOp == [method |-> "none", sel |-> NoBbox, latfirst |-> FALSE, norm |-> FALSE]

CtxObj == [type |-> "ctx", alive |-> TRUE, errno |-> 0, ctx |-> NULL,
           op |-> NoOp, bbox |-> NoBbox]
PjObj(ctx, op) == [type |-> "pj", alive |-> TRUE, errno |-> 0, ctx |-> ctx,
                   op |-> op, bbox |-> NoBbox]
AreaObj == [type |-> "area", alive |-> TRUE, errno |-> 0, ctx |-> NULL,
            op |-> NoOp, bbox |-> NoBbox]

\* heap[1] is the library's default context, used for a NULL PJ
pj_get_default_ctx == 1
InitHeap == <<CtxObj>>

\* proj_errno_string: the message of an error code; NULL for code 0
proj_errno_string(code) ==
    CASE code = PJD_ERR_LAT_OR_LON_EXCEED_LIMIT -> "latitude or longitude exceeded limits"
      [] code = PJD_ERR_TOLERANCE_CONDITION -> "tolerance condition error"
      [] code = 0 -> "<NULL>"
      [] OTHER -> "unknown error"

\* definition strings proj_create is given; the first is not a definition
Definitions == {"crab", "+proj=geos", "+proj=pipeline +step +proj=helmert"}
OpOfDefinition(def) ==
    [method |-> IF def = "+proj=geos" THEN "geos" ELSE "helmert",
     sel |-> NoBbox, latfirst |-> FALSE, norm |-> FALSE]

\* CRS names proj_create_crs_to_crs is given; EPSG:4326 is latitude-first
CrsPairs == {<<"EPSG:4326", "EPSG:2230">>, <<"EPSG:2230", "EPSG:26946">>,
             <<"bogus", "EPSG:2230">>}
KnownCrs == {"EPSG:4326", "EPSG:2230", "EPSG:26946"}
LatFirstCrs == {"EPSG:4326"}
\* Area values: <<west, south, east, north>>; the second crosses the antimeridian
Areas == {<<0, 0, 1, 1>>, <<1, 0, 0, 1>>}

proj_coord_error == <<HUGE_VAL, HUGE_VAL, HUGE_VAL>>

\* The transformation a PJ stands for, applied to <<x, y, zt>>: the error it
\* raises (0: none) and the coordinate it returns.
Transform(op, dir, c) ==
    LET x == IF op.latfirst THEN c[2] ELSE c[1]
        y == IF op.latfirst THEN c[1] ELSE c[2]
        zt == c[3]
        fail(e) == [err |-> e, coord |-> proj_coord_error]
        good(a, b) == [err |-> 0, coord |-> <<a, b, zt>>]
        s == IF op.sel = NoBbox THEN 0 ELSE 1 + op.sel[1]
    IN CASE op.method = "geos" /\ dir = PJ_DIRECTION_PJ_FWD ->
              IF y >= 1 THEN fail(PJD_ERR_LAT_OR_LON_EXCEED_LIMIT)
              ELSE good(10 + x, 20 + y)
         [] op.method = "geos" /\ dir = PJ_DIRECTION_PJ_INV ->
              IF x >= 1 THEN fail(PJD_ERR_TOLERANCE_CONDITION)
              ELSE good(x - 10, y - 20)
         [] op.method = "helmert" /\ dir = PJ_DIRECTION_PJ_FWD ->
              good(x + zt, y + 1)
         [] op.method = "helmert" /\ dir = PJ_DIRECTION_PJ_INV ->
              good(x - zt, y - 1)
         [] op.method = "crs" /\ dir = PJ_DIRECTION_PJ_FWD ->
              IF y >= 1 THEN fail(PJD_ERR_LAT_OR_LON_EXCEED_LIMIT)
              ELSE good(30 + 3 * x + s, 40 + y)
         [] op.method = "crs" /\ dir = PJ_DIRECTION_PJ_INV ->
              IF x >= 1 THEN fail(PJD_ERR_TOLERANCE_CONDITION)
              ELSE good(x - 30 - s, y - 40)
         [] OTHER -> fail(PJD_ERR_TOLERANCE_CONDITION)

\* an allocation: the object is appended, its address is its index
Alloc(h, obj) == [heap |-> Append(h, obj), ptr |-> Len(h) + 1]

proj_context_create(h) == Alloc(h, CtxObj)

proj_context_destroy(h, ctx) == [h EXCEPT ![ctx].alive = FALSE]

proj_area_create(h) == Alloc(h, AreaObj)

proj_area_set_bbox(h, parea, bbox) == [h EXCEPT ![parea].bbox = bbox]

proj_area_destroy(h, parea) == [h EXCEPT ![parea].alive = FALSE]

\* NULL when the string is not a definition
proj_create(h, ctx, definition) ==
    IF definition = "crab" THEN [heap |-> h, ptr |-> NULL]
    ELSE Alloc(h, PjObj(ctx, OpOfDefinition(definition)))

\* The operation is chosen here, from the bounding box the area holds at
\* this moment; the PJ keeps no reference to the area.  NULL when a CRS is
\* unknown.
proj_create_crs_to_crs(h, ctx, from, to, parea) ==
    IF from \notin KnownCrs \/ to \notin KnownCrs THEN [heap |-> h, ptr |-> NULL]
    ELSE Alloc(h, PjObj(ctx, [method |-> "crs", sel |-> h[parea].bbox,
                              latfirst |-> from \in LatFirstCrs, norm |-> FALSE]))

\* A new PJ taking longitude/easting first; `made` is whether the library
\* managed to build it (it returns NULL otherwise).
proj_normalize_for_visualization(h, ctx, P, made) ==
    IF made THEN Alloc(h, PjObj(ctx, [h[P].op EXCEPT !.latfirst = FALSE, !.norm = TRUE]))
    ELSE [heap |-> h, ptr |-> NULL]

proj_destroy(h, P) == IF P = NULL THEN h ELSE [h EXCEPT ![P].alive = FALSE]

pj_get_ctx(h, P) == IF P = NULL THEN pj_get_default_ctx ELSE h[P].ctx

proj_errno(h, P) == h[pj_get_ctx(h, P)].errno

proj_errno_reset(h, P) == [h EXCEPT ![pj_get_ctx(h, P)].errno = 0]

\* proj_trans clears the context's errno, transforms, and on success puts
\* the errno it found back: an error of an earlier call outlives later
\* successful calls until proj_errno_reset.  A NULL PJ returns its input.
proj_trans(h, P, dir, coord) ==
    IF P = NULL THEN [heap |-> h, coord |-> coord]
    ELSE LET r == Transform(h[P].op, dir, coord)
             last_errno == proj_errno(h, P)
         IN [heap |-> [h EXCEPT ![pj_get_ctx(h, P)].errno =
                          IF r.err # 0 THEN r.err ELSE last_errno],
             coord |-> r.coord]

\* proj_trans_array: proj_trans on coord[i..] in place, stopping at the
\* first element after which errno is set; returns that errno, or 0.
RECURSIVE proj_trans_array_from(_, _, _, _, _)
proj_trans_array_from(h, P, dir, coord, i) ==
    IF i > Len(coord) THEN [heap |-> h, coord |-> coord, ret |-> 0]
    ELSE LET t == proj_trans(h, P, dir, coord[i])
             c2 == [coord EXCEPT ![i] = t.coord]
         IN IF proj_errno(t.heap, P) # 0
            THEN [heap |-> t.heap, coord |-> c2, ret |-> proj_errno(t.heap, P)]
            ELSE proj_trans_array_from(t.heap, P, dir, c2, i + 1)

proj_trans_array(h, P, dir, coord) == proj_trans_array_from(h, P, dir, coord, 1)

(***************************************************************************)
(* proj.rs: the wrapper.  Every operator takes the native heap and returns *)
(* the heap it leaves, with what the Rust function returns in `ret`.       *)
(***************************************************************************)
\* _string(proj_errno_string(code))
error_message(code) == proj_errno_string(code)

\* Err(ProjError::<variant>(error_message(code)))
Err(variant, code) ==
    [tag |-> "Err", variant |-> variant, code |-> code,
     msg |-> error_message(code), val |-> <<>>]

\* fn area_set_bbox(parea, new_area: Option<Area>)
area_set_bbox(h, parea, new_area) ==
    IF new_area # None THEN proj_area_set_bbox(h, parea, new_area[1]) ELSE h

\* Proj::new on the library's default context instead of a context of its own
Proj_new_default_ctx(h, definition) ==
    LET new_c_proj == proj_create(h, pj_get_default_ctx, definition)
    IN [heap |-> new_c_proj.heap,
        raw |-> new_c_proj.ptr,
        ret |-> IF new_c_proj.ptr = NULL THEN None
                ELSE Some([c_proj |-> new_c_proj.ptr, ctx |-> pj_get_default_ctx,
                           area |-> None])]

\* Proj::new creating and keeping an area object, as new_known_crs does
Proj_new_with_area(h, definition) ==
    LET ctx == proj_context_create(h)
        proj_area == proj_area_create(ctx.heap)
        new_c_proj == proj_create(proj_area.heap, ctx.ptr, definition)
    IN [heap |-> new_c_proj.heap,
        raw |-> new_c_proj.ptr,
        ret |-> IF new_c_proj.ptr = NULL THEN None
                ELSE Some([c_proj |-> new_c_proj.ptr, ctx |-> ctx.ptr,
                           area |-> Some(proj_area.ptr)])]

\* Proj::new without the is_null test of line 104
Proj_new_unchecked(h, definition) ==
    LET ctx == proj_context_create(h)
        new_c_proj == proj_create(ctx.heap, ctx.ptr, definition)
    IN [heap |-> new_c_proj.heap,
        raw |-> new_c_proj.ptr,
        ret |-> Some([c_proj |-> new_c_proj.ptr, ctx |-> ctx.ptr, area |-> None])]

\* Proj::new
Proj_new(h, definition) ==
    LET ctx == proj_context_create(h)
        new_c_proj == proj_create(ctx.heap, ctx.ptr, definition)
    IN [heap |-> new_c_proj.heap,
        raw |-> new_c_proj.ptr,
        ret |-> IF new_c_proj.ptr = NULL THEN None
                ELSE Some([c_proj |-> new_c_proj.ptr, ctx |-> ctx.ptr, area |-> None])]

\* Proj::new_known_crs keeping the PJ of proj_create_crs_to_crs and
\* destroying the normalised one
Proj_new_known_crs_raw(h, from, to, area, made) ==
    LET ctx == proj_context_create(h)
        proj_area == proj_area_create(ctx.heap)
        h1 == area_set_bbox(proj_area.heap, proj_area.ptr, area)
        new_c_proj == proj_create_crs_to_crs(h1, ctx.ptr, from, to, proj_area.ptr)
        normalised == proj_normalize_for_visualization(new_c_proj.heap, ctx.ptr,
                                                       new_c_proj.ptr, made)
    IN IF new_c_proj.ptr = NULL
       THEN [heap |-> new_c_proj.heap, raw |-> NULL, ret |-> None]
       ELSE [heap |-> proj_destroy(normalised.heap, normalised.ptr),
             raw |-> new_c_proj.ptr,
             ret |-> Some([c_proj |-> new_c_proj.ptr, ctx |-> ctx.ptr,
                           area |-> Some(proj_area.ptr)])]

\* Proj::new_known_crs; `made`: whether the library builds the normalised PJ
Proj_new_known_crs(h, from, to, area, made) ==
    LET ctx == proj_context_create(h)
        proj_area == proj_area_create(ctx.heap)
        h1 == area_set_bbox(proj_area.heap, proj_area.ptr, area)
        new_c_proj == proj_create_crs_to_crs(h1, ctx.ptr, from, to, proj_area.ptr)
        normalised == proj_normalize_for_visualization(new_c_proj.heap, ctx.ptr,
                                                       new_c_proj.ptr, made)
    IN IF new_c_proj.ptr = NULL
       THEN [heap |-> new_c_proj.heap, raw |-> NULL, ret |-> None]
       ELSE [heap |-> proj_destroy(normalised.heap, new_c_proj.ptr),
             raw |-> new_c_proj.ptr,
             ret |-> Some([c_proj |-> normalised.ptr, ctx |-> ctx.ptr,
                           area |-> Some(proj_area.ptr)])]

\* Proj::area_set_bbox; `native`: the native calls it makes
Proj_area_set_bbox(h, self, new_bbox) ==
    IF self.area # None
    THEN [heap |-> proj_area_set_bbox(h, self.area[1], new_bbox),
          native |-> <<"proj_area_set_bbox">>]
    ELSE [heap |-> h, native |-> <<>>]

\* Proj::project without the proj_errno_reset of line 244
Proj_project_no_reset(h, self, point, inverse, pad) ==
    LET inv == IF inverse THEN PJ_DIRECTION_PJ_INV ELSE PJ_DIRECTION_PJ_FWD
        coords == <<point[1], point[2], pad>>
        trans == proj_trans(h, self.c_proj, inv, coords)
        err == proj_errno(trans.heap, self.c_proj)
    IN [heap |-> trans.heap,
        ret |-> IF err = 0 THEN Ok(<<trans.coord[1], trans.coord[2]>>)
                ELSE Err("Projection", err)]

\* Proj::project
Proj_project(h, self, point, inverse, pad) ==
    LET inv == IF inverse THEN PJ_DIRECTION_PJ_INV ELSE PJ_DIRECTION_PJ_FWD
        coords == <<point[1], point[2], pad>>
        h1 == proj_errno_reset(h, self.c_proj)
        trans == proj_trans(h1, self.c_proj, inv, coords)
        err == proj_errno(trans.heap, self.c_proj)
    IN [heap |-> trans.heap,
        ret |-> IF err = 0 THEN Ok(<<trans.coord[1], trans.coord[2]>>)
                ELSE Err("Projection", err)]

\* Proj::convert testing the errno read before the transform
Proj_convert_early_errno(h, self, point, pad) ==
    LET coords == <<point[1], point[2], pad>>
        h1 == proj_errno_reset(h, self.c_proj)
        err == proj_errno(h1, self.c_proj)
        trans == proj_trans(h1, self.c_proj, PJ_DIRECTION_PJ_FWD, coords)
    IN [heap |-> trans.heap,
        ret |-> IF err = 0 THEN Ok(<<trans.coord[1], trans.coord[2]>>)
                ELSE Err("Conversion", err)]

\* Proj::convert
Proj_convert(h, self, point, pad) ==
    LET coords == <<point[1], point[2], pad>>
        h1 == proj_errno_reset(h, self.c_proj)
        trans == proj_trans(h1, self.c_proj, PJ_DIRECTION_PJ_FWD, coords)
        err == proj_errno(trans.heap, self.c_proj)
    IN [heap |-> trans.heap,
        ret |-> IF err = 0 THEN Ok(<<trans.coord[1], trans.coord[2]>>)
                ELSE Err("Conversion", err)]

\* Proj::convert_array reading errno before proj_trans_array, not after
Proj_convert_array_early_errno(h, self, points, pads) ==
    LET pj == [i \in 1..Len(points) |-> <<points[i][1], points[i][2], pads[i]>>]
        h1 == proj_errno_reset(h, self.c_proj)
        err == proj_errno(h1, self.c_proj)
        t == proj_trans_array(h1, self.c_proj, PJ_DIRECTION_PJ_FWD, pj)
        trans == t.ret
        refilled == [i \in 1..Len(points) |-> <<t.coord[i][1], t.coord[i][2]>>]
    IN IF err = 0 /\ trans = 0
       THEN [heap |-> t.heap, points |-> refilled, ret |-> Ok(refilled)]
       ELSE [heap |-> t.heap, points |-> points, ret |-> Err("Projection", err)]

\* Proj::convert_array transforming the caller's slice itself: the elements
\* proj_trans_array reached are written whatever the outcome
Proj_convert_array_in_place(h, self, points, pads) ==
    LET pj == [i \in 1..Len(points) |-> <<points[i][1], points[i][2], pads[i]>>]
        h1 == proj_errno_reset(h, self.c_proj)
        t == proj_trans_array(h1, self.c_proj, PJ_DIRECTION_PJ_FWD, pj)
        trans == t.ret
        err == proj_errno(t.heap, self.c_proj)
        refilled == [i \in 1..Len(points) |-> <<t.coord[i][1], t.coord[i][2]>>]
    IN IF err = 0 /\ trans = 0
       THEN [heap |-> t.heap, points |-> refilled, ret |-> Ok(refilled)]
       ELSE [heap |-> t.heap, points |-> refilled, ret |-> Err("Projection", err)]

\* Proj::convert_array; `points`: the caller's slice after the call
Proj_convert_array(h, self, points, pads) ==
    LET pj == [i \in 1..Len(points) |-> <<points[i][1], points[i][2], pads[i]>>]
        h1 == proj_errno_reset(h, self.c_proj)
        t == proj_trans_array(h1, self.c_proj, PJ_DIRECTION_PJ_FWD, pj)
        trans == t.ret
        err == proj_errno(t.heap, self.c_proj)
        refilled == [i \in 1..Len(points) |-> <<t.coord[i][1], t.coord[i][2]>>]
    IN IF err = 0 /\ trans = 0
       THEN [heap |-> t.heap, points |-> refilled, ret |-> Ok(refilled)]
       ELSE [heap |-> t.heap, points |-> points, ret |-> Err("Projection", err)]

\* Proj::project_array reading errno before proj_trans_array, not after
Proj_project_array_early_errno(h, self, points, inverse, pads) ==
    LET inv == IF inverse THEN PJ_DIRECTION_PJ_INV ELSE PJ_DIRECTION_PJ_FWD
        pj == [i \in 1..Len(points) |-> <<points[i][1], points[i][2], pads[i]>>]
        h1 == proj_errno_reset(h, self.c_proj)
        err == proj_errno(h1, self.c_proj)
        t == proj_trans_array(h1, self.c_proj, inv, pj)
        trans == t.ret
        refilled == [i \in 1..Len(points) |-> <<t.coord[i][1], t.coord[i][2]>>]
    IN IF err = 0 /\ trans = 0
       THEN [heap |-> t.heap, points |-> refilled, ret |-> Ok(refilled)]
       ELSE [heap |-> t.heap, points |-> points, ret |-> Err("Projection", err)]

\* Proj::project_array passing PJ_DIRECTION_PJ_FWD whatever `inverse` is
Proj_project_array_fwd(h, self, points, inverse, pads) ==
    LET pj == [i \in 1..Len(points) |-> <<points[i][1], points[i][2], pads[i]>>]
        h1 == proj_errno_reset(h, self.c_proj)
        t == proj_trans_array(h1, self.c_proj, PJ_DIRECTION_PJ_FWD, pj)
        trans == t.ret
        err == proj_errno(t.heap, self.c_proj)
        refilled == [i \in 1..Len(points) |-> <<t.coord[i][1], t.coord[i][2]>>]
    IN IF err = 0 /\ trans = 0
       THEN [heap |-> t.heap, points |-> refilled, ret |-> Ok(refilled)]
       ELSE [heap |-> t.heap, points |-> points, ret |-> Err("Projection", err)]

\* Proj::project_array
Proj_project_array(h, self, points, inverse, pads) ==
    LET inv == IF inverse THEN PJ_DIRECTION_PJ_INV ELSE PJ_DIRECTION_PJ_FWD
        pj == [i \in 1..Len(points) |-> <<points[i][1], points[i][2], pads[i]>>]
        h1 == proj_errno_reset(h, self.c_proj)
        t == proj_trans_array(h1, self.c_proj, inv, pj)
        trans == t.ret
        err == proj_errno(t.heap, self.c_proj)
        refilled == [i \in 1..Len(points) |-> <<t.coord[i][1], t.coord[i][2]>>]
    IN IF err = 0 /\ trans = 0
       THEN [heap |-> t.heap, points |-> refilled, ret |-> Ok(refilled)]
       ELSE [heap |-> t.heap, points |-> points, ret |-> Err("Projection", err)]

\* impl Drop for Proj
Proj_drop(h, self) ==
    LET h1 == proj_destroy(h, self.c_proj)
        h2 == proj_context_destroy(h1, self.ctx)
    IN IF self.area # None THEN proj_area_destroy(h2, self.area[1]) ELSE h2

(***************************************************************************)
(* The program: it holds up to two Option<Proj> values and calls the       *)
(* public functions on them in any order.                                  *)
(***************************************************************************)
NoCall == [op |-> "none"]
NoOrigin == [args |-> [ctor |-> "none"], raw |-> NULL]

\* the arguments of the two constructors
NewArgs == {[ctor |-> "new", definition |-> d] : d \in Definitions}
CrsArgs == {[ctor |-> "new_known_crs", from |-> c[1], to |-> c[2], area |-> a,
             made |-> m] :
               c \in CrsPairs, a \in {None} \cup {Some(b) : b \in Areas},
               m \in BOOLEAN}
Build(h, a) ==
    IF a.ctor = "new" THEN Proj_new(h, a.definition)
    ELSE Proj_new_known_crs(h, a.from, a.to, a.area, a.made)

Init ==
    /\ heap = InitHeap
    /\ engines = [s \in Slots |-> None]
    /\ origin = [s \in Slots |-> NoOrigin]
    /\ last = NoCall
    /\ calls = [s \in Slots |-> NoCall]

\* no returned value is held: the next call can be made
Idle == last = NoCall
Live(s) == engines[s] # None
Self(s) == engines[s][1]
\* the errno a call on the engine would find
ErrnoOf(h, self) == proj_errno(h, self.c_proj)

\* `let p = Proj::new(..)` / `Proj::new_known_crs(..)` into an empty variable
Construct(s, a) ==
    LET r == Build(heap, a)
    IN /\ Idle
       /\ ~Live(s)
       /\ Len(r.heap) <= MaxHeap
       /\ heap' = r.heap
       /\ engines' = [engines EXCEPT ![s] = r.ret]
       /\ origin' = [origin EXCEPT ![s] =
              IF r.ret = None THEN NoOrigin ELSE [args |-> a, raw |-> r.raw]]
       /\ last' = [op |-> a.ctor, slot |-> s, args |-> a, raw |-> r.raw,
                   ret |-> r.ret]
       /\ UNCHANGED calls

New(s) == \E a \in NewArgs : Construct(s, a)

NewKnownCrs(s) == \E a \in CrsArgs : Construct(s, a)

AreaSetBbox(s) ==
    \E new_bbox \in Areas :
        LET r == Proj_area_set_bbox(heap, Self(s), new_bbox)
        IN /\ Idle
           /\ Live(s)
           /\ heap' = r.heap
           /\ last' = [op |-> "area_set_bbox", slot |-> s, new_bbox |-> new_bbox,
                       native |-> r.native]
           /\ UNCHANGED <<engines, origin, calls>>

Project(s) ==
    \E point \in Points, inverse \in BOOLEAN, pad \in Pads :
        LET r == Proj_project(heap, Self(s), point, inverse, pad)
        IN /\ Idle
           /\ Live(s)
           /\ heap' = r.heap
           /\ last' = [op |-> "project", slot |-> s, point |-> point,
                       inverse |-> inverse, pad |-> pad, ret |-> r.ret,
                       errno_before |-> ErrnoOf(heap, Self(s)),
                       errno_after |-> ErrnoOf(r.heap, Self(s))]
           /\ UNCHANGED <<engines, origin, calls>>

Convert(s) ==
    \E point \in Points, pad \in Pads :
        LET r == Proj_convert(heap, Self(s), point, pad)
        IN /\ Idle
           /\ Live(s)
           /\ heap' = r.heap
           /\ last' = [op |-> "convert", slot |-> s, point |-> point,
                       inverse |-> FALSE, pad |-> pad, ret |-> r.ret,
                       errno_before |-> ErrnoOf(heap, Self(s)),
                       errno_after |-> ErrnoOf(r.heap, Self(s))]
           /\ UNCHANGED <<engines, origin, calls>>

PadsFor(points) == {p \in SeqsUpTo(Pads, Len(points)) : Len(p) = Len(points)}

ProjectArray(s) ==
    \E points \in Batches, inverse \in BOOLEAN :
      \E pads \in PadsFor(points) :
        LET r == Proj_project_array(heap, Self(s), points, inverse, pads)
        IN /\ Idle
           /\ Live(s)
           /\ heap' = r.heap
           /\ last' = [op |-> "project_array", slot |-> s, points |-> points,
                       inverse |-> inverse, pads |-> pads, ret |-> r.ret,
                       slice |-> r.points,
                       errno_before |-> ErrnoOf(heap, Self(s)),
                       errno_after |-> ErrnoOf(r.heap, Self(s))]
           /\ UNCHANGED <<engines, origin, calls>>

ConvertArray(s) ==
    \E points \in Batches :
      \E pads \in PadsFor(points) :
        LET r == Proj_convert_array(heap, Self(s), points, pads)
        IN /\ Idle
           /\ Live(s)
           /\ heap' = r.heap
           /\ last' = [op |-> "convert_array", slot |-> s, points |-> points,
                       inverse |-> FALSE, pads |-> pads, ret |-> r.ret,
                       slice |-> r.points,
                       errno_before |-> ErrnoOf(heap, Self(s)),
                       errno_after |-> ErrnoOf(r.heap, Self(s))]
           /\ UNCHANGED <<engines, origin, calls>>

Drop(s) ==
    /\ Idle
    /\ Live(s)
    /\ heap' = Proj_drop(heap, Self(s))
    /\ engines' = [engines EXCEPT ![s] = None]
    /\ origin' = [origin EXCEPT ![s] = NoOrigin]
    /\ last' = [op |-> "drop", slot |-> s]
    /\ UNCHANGED calls

\* the caller lets go of what the last call returned
Discard ==
    /\ last # NoCall
    /\ last' = NoCall
    /\ UNCHANGED <<heap, engines, origin, calls>>

(***************************************************************************)
(* Spec: engines are built, used for single-point calls, re-targeted and   *)
(* dropped, two at a time.                                                 *)
(***************************************************************************)
Next ==
    \/ Discard
    \/ \E s \in Slots :
        \/ New(s)
        \/ NewKnownCrs(s)
        \/ AreaSetBbox(s)
        \/ Project(s)
        \/ Convert(s)
        \/ Drop(s)

Spec == Init /\ [][Next]_vars

(***************************************************************************)
(* SpecBatch: one engine, just built by either constructor, is used for    *)
(* single-point and slice calls in any order.                              *)
(***************************************************************************)
InitBatch ==
    /\ \E a \in NewArgs \cup CrsArgs :
          LET built == Build(InitHeap, a)
          IN /\ built.ret # None
             /\ heap = built.heap
             /\ engines = [s \in Slots |-> IF s = 1 THEN built.ret ELSE None]
             /\ origin = [s \in Slots |-> IF s = 1 THEN [args |-> a, raw |-> built.raw]
                                          ELSE NoOrigin]
    /\ last = NoCall
    /\ calls = [s \in Slots |-> NoCall]

NextBatch ==
    \/ Discard
    \/ Project(1)
    \/ Convert(1)
    \/ ProjectArray(1)
    \/ ConvertArray(1)

SpecBatch == InitBatch /\ [][NextBatch]_vars

(***************************************************************************)
(* SpecThreads: each engine belongs to a thread of its own (Proj holds raw *)
(* pointers, so it is neither Send nor Sync).  The threads build, use and  *)
(* drop their engines concurrently: project and convert are three native   *)
(* calls (proj_errno_reset, proj_trans, proj_errno) that interleave with   *)
(* the native calls of the other thread.                                   *)
(***************************************************************************)
InCall(s) == calls[s] # NoCall

ThreadNew(s) ==
    \E a \in NewArgs \cup CrsArgs :
        LET r == Build(heap, a)
        IN /\ ~InCall(s)
           /\ ~Live(s)
           /\ Len(r.heap) <= MaxHeap
           /\ heap' = r.heap
           /\ engines' = [engines EXCEPT ![s] = r.ret]
           /\ origin' = [origin EXCEPT ![s] =
                  IF r.ret = None THEN NoOrigin ELSE [args |-> a, raw |-> r.raw]]
           /\ UNCHANGED <<last, calls>>

ThreadDrop(s) ==
    /\ ~InCall(s)
    /\ Live(s)
    /\ heap' = Proj_drop(heap, Self(s))
    /\ engines' = [engines EXCEPT ![s] = None]
    /\ origin' = [origin EXCEPT ![s] = NoOrigin]
    /\ UNCHANGED <<last, calls>>

\* project / convert up to and including proj_errno_reset (lines 227-244,
\* 317-325)
CallReset(s) ==
    \E op \in {"project", "convert"}, point \in Points, inverse \in BOOLEAN,
       pad \in Pads :
        /\ ~InCall(s)
        /\ Live(s)
        /\ op = "convert" => ~inverse
        /\ heap' = proj_errno_reset(heap, Self(s).c_proj)
        /\ calls' = [calls EXCEPT ![s] =
               [op |-> op, pc |-> "proj_trans", point |-> point,
                inverse |-> inverse, pad |-> pad,
                trans |-> <<point[1], point[2], pad>>, err |-> 0]]
        /\ UNCHANGED <<engines, origin, last>>

\* let trans = proj_trans(..) (lines 246, 326)
CallTrans(s) ==
    /\ InCall(s)
    /\ calls[s].pc = "proj_trans"
    /\ LET c == calls[s]
           t == proj_trans(heap, Self(s).c_proj,
                           IF c.inverse THEN PJ_DIRECTION_PJ_INV
                           ELSE PJ_DIRECTION_PJ_FWD,
                           <<c.point[1], c.point[2], c.pad>>)
       IN /\ heap' = t.heap
          /\ calls' = [calls EXCEPT ![s].pc = "proj_errno", ![s].trans = t.coord]
    /\ UNCHANGED <<engines, origin, last>>

\* err = proj_errno(..) (lines 250, 329)
CallErrno(s) ==
    /\ InCall(s)
    /\ calls[s].pc = "proj_errno"
    /\ calls' = [calls EXCEPT ![s].pc = "return",
                              ![s].err = proj_errno(heap, Self(s).c_proj)]
    /\ UNCHANGED <<heap, engines, origin, last>>

\* what the call in progress returns (lines 252-256, 331-335)
CallResult(c) ==
    IF c.err = 0 THEN Ok(<<c.trans[1], c.trans[2]>>)
    ELSE Err(IF c.op = "convert" THEN "Conversion" ELSE "Projection", c.err)

CallReturn(s) ==
    /\ InCall(s)
    /\ calls[s].pc = "return"
    /\ calls' = [calls EXCEPT ![s] = NoCall]
    /\ UNCHANGED <<heap, engines, origin, last>>

NextThreads ==
    \E s \in Slots :
        \/ ThreadNew(s)
        \/ ThreadDrop(s)
        \/ CallReset(s)
        \/ CallTrans(s)
        \/ CallErrno(s)
        \/ CallReturn(s)

SpecThreads == Init /\ [][NextThreads]_vars

(***************************************************************************)
(* The claims.                                                             *)
(***************************************************************************)
Transforms == {"project", "convert", "project_array", "convert_array"}

\* the call `c` made on engine `self` over heap `h`: what it returns
Returned(h, self, c) ==
    CASE c.op = "project" -> Proj_project(h, self, c.point, c.inverse, c.pad).ret
      [] c.op = "convert" -> Proj_convert(h, self, c.point, c.pad).ret
      [] c.op = "project_array" ->
            Proj_project_array(h, self, c.points, c.inverse, c.pads).ret
      [] c.op = "convert_array" -> Proj_convert_array(h, self, c.points, c.pads).ret

\* the last call, made instead as the first call on an engine just built
\* from the same constructor arguments
OnFreshEngine ==
    LET fresh == Build(InitHeap, origin[last.slot].args)
    IN Returned(fresh.heap, fresh.ret[1], last)

\* C1: error isolation.  Whatever the errno earlier calls left on the
\* engine, a project / convert / project_array / convert_array call returns
\* what the same call (same points, same native coordinate) returns as the
\* first call on a freshly built engine of the same definition; so a call
\* with valid input succeeds right after a failed one.
C1_ErrorIsolation ==
    last.op \in Transforms => last.ret = OnFreshEngine

\* a call succeeded on an engine whose errno the previous call had left set
C1_Witness ==
    /\ last.op \in {"project", "project_array"}
    /\ last.errno_before # 0
    /\ last.ret.tag = "Ok"

\* what project / convert returns for element i of the last slice call
Single(i) ==
    IF last.op = "project_array"
    THEN Proj_project(heap, Self(last.slot), last.points[i], last.inverse,
                      last.pads[i]).ret
    ELSE Proj_convert(heap, Self(last.slot), last.points[i], last.pads[i]).ret

\* C2: batch equivalence.  project_array(points, inverse) returns Ok exactly
\* when project(points[i], inverse) returns Ok for every i; the slice then
\* keeps its length and its i-th element is what project(points[i], inverse)
\* returns.  The same for convert_array against convert; the empty slice
\* included.
C2_BatchEquivalence ==
    last.op \in {"project_array", "convert_array"} =>
        LET n == Len(last.points)
        IN /\ last.ret.tag = "Ok" <=> \A i \in 1..n : Single(i).tag = "Ok"
           /\ last.ret.tag = "Ok" =>
                /\ Len(last.slice) = n
                /\ last.ret.val = last.slice
                /\ \A i \in 1..n : last.slice[i] = Single(i).val

\* an inverse projection of a slice of two different points succeeded
C2_Witness ==
    /\ last.op = "project_array"
    /\ last.inverse
    /\ Len(last.points) = 2
    /\ last.points[1] # last.points[2]
    /\ last.ret.tag = "Ok"
    /\ last.slice # last.points

\* C3: a constructor whose native create call returns NULL (proj_create for
\* Proj::new, proj_create_crs_to_crs for Proj::new_known_crs) returns None:
\* no Proj value is produced.
C3_FailedCreateReturnsNone ==
    (last.op \in {"new", "new_known_crs"} /\ last.raw = NULL) =>
        /\ last.ret = None
        /\ engines[last.slot] = None

\* new_known_crs was called with a CRS the library does not know
C3_Witness ==
    /\ last.op = "new_known_crs"
    /\ last.args.from \notin KnownCrs
    /\ last.raw = NULL

\* C4: convert returns Ok(the point proj_trans returned) exactly when the
\* errno read after the transform is 0, and otherwise
\* Err(ProjError::Conversion(m)) with m the library's message for that errno;
\* project the same with ProjError::Projection.
C4_TypedResults ==
    last.op \in {"convert", "project"} =>
        LET self == Self(last.slot)
            dir == IF last.inverse THEN PJ_DIRECTION_PJ_INV ELSE PJ_DIRECTION_PJ_FWD
            out == proj_trans(heap, self.c_proj, dir,
                              <<last.point[1], last.point[2], last.pad>>).coord
            kind == IF last.op = "convert" THEN "Conversion" ELSE "Projection"
        IN /\ last.ret.tag = "Ok" <=> last.errno_after = 0
           /\ last.errno_after = 0 => last.ret = Ok(<<out[1], out[2]>>)
           /\ last.errno_after # 0 =>
                /\ last.ret.tag = "Err"
                /\ last.ret.variant = kind
                /\ last.ret.msg = proj_errno_string(last.errno_after)

\* test_conversion_error: a convert outside the operation's domain
C4_Witness ==
    /\ last.op = "convert"
    /\ last.errno_after = PJD_ERR_LAT_OR_LON_EXCEED_LIMIT
    /\ last.ret.tag = "Err"
    /\ last.ret.msg = "latitude or longitude exceeded limits"

BatchOps == {"project_array", "convert_array"}

\* the errno the engine's operation raises on element i of slice `points`
\* (0: none), from the operation alone
ElemErr(self, inverse, points, pads, i) ==
    IF self.c_proj = NULL THEN 0
    ELSE Transform(heap[self.c_proj].op,
                   IF inverse THEN PJ_DIRECTION_PJ_INV ELSE PJ_DIRECTION_PJ_FWD,
                   <<points[i][1], points[i][2], pads[i]>>).err

\* the index of the first element the operation fails on; 0 when none
FirstFailing(self, inverse, points, pads) ==
    LET bad == {i \in 1..Len(points) : ElemErr(self, inverse, points, pads, i) # 0}
    IN IF bad = {} THEN 0 ELSE CHOOSE i \in bad : \A j \in bad : i <= j

LastFailing == FirstFailing(Self(last.slot), last.inverse, last.points, last.pads)

\* C5 as stated: the error of a failed slice call tells which element
\* failed, i.e. no other slice that fails at another index gets the same
\* error from the same call.
C5_ErrorTellsIndex ==
    (last.op \in BatchOps /\ last.ret.tag = "Err") =>
        \A points \in Batches : \A pads \in PadsFor(points) :
            Returned(heap, Self(last.slot),
                     [last EXCEPT !.points = points, !.pads = pads]) = last.ret
            => FirstFailing(Self(last.slot), last.inverse, points, pads) = LastFailing

\* C5 amended: the error of a failed slice call is made of the library's
\* message for the errno of the first failing element and of nothing else:
\* it is the error the same call returns for the one-element slice holding
\* that element.
C5_ErrorIsMessageOnly ==
    (last.op \in BatchOps /\ last.ret.tag = "Err") =>
        LET k == LastFailing
        IN /\ k >= 1
           /\ last.ret.msg = proj_errno_string(
                  ElemErr(Self(last.slot), last.inverse, last.points, last.pads, k))
           /\ last.ret = Returned(heap, Self(last.slot),
                                  [last EXCEPT !.points = <<last.points[k]>>,
                                               !.pads = <<last.pads[k]>>])

\* a slice call failed on its second element
C5_Witness ==
    /\ last.op = "convert_array"
    /\ last.ret.tag = "Err"
    /\ LastFailing = 2

\* C6: a slice call fails as a whole as soon as one element fails, and the
\* error of a failed slice call holds the library's message for the nonzero
\* errno the first failing element raised, never the message of errno 0.
C6_BatchErrorReflectsFailure ==
    last.op \in BatchOps =>
        LET k == LastFailing
        IN /\ k >= 1 <=> last.ret.tag = "Err"
           /\ last.ret.tag = "Err" =>
                /\ last.ret.code # 0
                /\ last.ret.code =
                     ElemErr(Self(last.slot), last.inverse, last.points, last.pads, k)
                /\ last.ret.msg = proj_errno_string(last.ret.code)
                /\ last.ret.msg # proj_errno_string(0)
                /\ last.errno_after = last.ret.code

\* an inverse projection of a slice failed on an element after the first
C6_Witness ==
    /\ last.op = "project_array"
    /\ last.inverse
    /\ last.ret.tag = "Err"
    /\ last.ret.code = PJD_ERR_TOLERANCE_CONDITION
    /\ LastFailing > 1

\* C7 as stated: once an engine of new_known_crs holds bounding box b in its
\* area (given at construction or by area_set_bbox), its operation is the one
\* the library selects for b, and convert returns what it returns on an
\* engine freshly built by new_known_crs(from, to, Some(b)).
C7_AreaOfUseIsUsed ==
    (/\ last.op = "convert"
     /\ origin[last.slot].args.ctor = "new_known_crs"
     /\ heap[Self(last.slot).area[1]].bbox # NoBbox) =>
        LET b == heap[Self(last.slot).area[1]].bbox
            fresh == Build(InitHeap, [origin[last.slot].args EXCEPT !.area = Some(b)])
        IN /\ last.ret = Proj_convert(fresh.heap, fresh.ret[1], last.point, last.pad).ret
           /\ Self(last.slot).c_proj # NULL =>
                heap[Self(last.slot).c_proj].op.sel = b

\* C8: area_set_bbox on an engine built by Proj::new finds no area reference
\* and does nothing: no native call, and the native objects and the engines
\* are left as they were.
C8_AreaSetBboxNoOp ==
    [][(/\ last.op = "none"
        /\ last'.op = "area_set_bbox"
        /\ origin[last'.slot].args.ctor = "new") =>
           /\ Self(last'.slot).area = None
           /\ last'.native = <<>>
           /\ heap' = heap
           /\ engines' = engines
           /\ origin' = origin]_vars

\* area_set_bbox was called on an engine built by Proj::new
C8_Witness ==
    /\ last.op = "area_set_bbox"
    /\ origin[last.slot].args.ctor = "new"
    /\ Live(last.slot)

\* C9: the handle of an engine built by new_known_crs is the one
\* proj_normalize_for_visualization returned (longitude/easting first), never
\* the PJ of proj_create_crs_to_crs, which is destroyed; convert goes through
\* that handle.  The handle of an engine built by Proj::new is the PJ of
\* proj_create, not normalised.
C9_NormalisedExactlyForKnownCrs ==
    \A s \in Slots : Live(s) =>
        LET p == Self(s).c_proj
            o == origin[s]
        IN /\ o.args.ctor = "new_known_crs" =>
                /\ p # o.raw
                /\ ~heap[o.raw].alive
                /\ p = NULL => ~o.args.made
                /\ p # NULL =>
                     /\ heap[p].alive
                     /\ heap[p].op = [heap[o.raw].op EXCEPT !.latfirst = FALSE,
                                                            !.norm = TRUE]
                     /\ (last.op = "convert" /\ last.slot = s /\ last.ret.tag = "Ok") =>
                          last.ret.val =
                            LET c == Transform([heap[o.raw].op EXCEPT !.latfirst = FALSE],
                                               PJ_DIRECTION_PJ_FWD,
                                               <<last.point[1], last.point[2], last.pad>>).coord
                            IN <<c[1], c[2]>>
           /\ o.args.ctor = "new" =>
                /\ p = o.raw
                /\ ~heap[p].op.norm

\* test_input_order: a convert from latitude-first EPSG:4326 succeeded
C9_Witness ==
    /\ last.op = "convert"
    /\ origin[last.slot].args.ctor = "new_known_crs"
    /\ origin[last.slot].args.from \in LatFirstCrs
    /\ Self(last.slot).c_proj # NULL
    /\ last.point[1] # last.point[2]
    /\ last.ret.tag = "Ok"

\* what an engine is made of: its fields and the native objects they name
View(h, self) ==
    [self |-> self,
     pj |-> IF self.c_proj = NULL THEN <<>> ELSE <<h[self.c_proj]>>,
     ctx |-> h[self.ctx],
     errno |-> ErrnoOf(h, self),
     area |-> IF self.area = None THEN <<>> ELSE <<h[self.area[1]]>>]

\* each engine has a live context of its own, which is not the library's
\* default context, and its handle, when not NULL, is its own and bound to
\* that context
OwnObjects ==
    \A s \in Slots : Live(s) =>
        /\ Self(s).ctx # pj_get_default_ctx
        /\ heap[Self(s).ctx].type = "ctx"
        /\ heap[Self(s).ctx].alive
        /\ Self(s).c_proj # NULL =>
             /\ heap[Self(s).c_proj].alive
             /\ heap[Self(s).c_proj].ctx = Self(s).ctx
        /\ \A t \in Slots \ {s} : Live(t) =>
             /\ Self(t).ctx # Self(s).ctx
             /\ Self(s).c_proj # NULL => Self(t).c_proj # Self(s).c_proj
             /\ Self(s).area # None => Self(t).area # Self(s).area

\* the call in progress on engine s, made instead alone on an engine just
\* built from the same constructor arguments
AloneOnFreshEngine(s) ==
    LET fresh == Build(InitHeap, origin[s].args)
    IN Returned(fresh.heap, fresh.ret[1], calls[s])

\* the engine whose thread takes the step changes; no other does
Steps(s) == calls'[s] # calls[s] \/ engines'[s] # engines[s]

\* C10: engines are independent.  Each has its own context and handle, and
\* under any interleaving of the native calls of two threads, each building,
\* using and dropping its own engine, a step on one engine leaves the other
\* engine, its native objects and its errno as they were, and every project /
\* convert returns what it returns when made alone on a fresh engine.
C10_EnginesIndependent ==
    [][/\ OwnObjects'
       /\ \A s \in Slots :
            (InCall(s) /\ calls[s].pc = "return") =>
                CallResult(calls[s]) = AloneOnFreshEngine(s)
       /\ \A s \in Slots, t \in Slots :
            (s # t /\ Steps(s) /\ Live(t)) =>
               /\ engines'[t] = engines[t]
               /\ calls'[t] = calls[t]
               /\ View(heap', Self(t)) = View(heap, Self(t))]_vars

\* a call succeeded on one engine while a call on another engine, built from
\* the same definition, had failed and not yet returned
C10_Witness ==
    \E s \in Slots, t \in Slots :
        /\ s # t
        /\ Live(s) /\ Live(t)
        /\ origin[s].args = origin[t].args
        /\ InCall(s) /\ calls[s].pc = "return" /\ calls[s].err = 0
        /\ InCall(t) /\ calls[t].pc = "proj_errno"
        /\ ErrnoOf(heap, Self(t)) # 0
        /\ calls[s].point # calls[t].point

\* the native objects the constructors allocated and nothing has destroyed
\* (heap[1] is the library's own default context)
Allocated(h) == {i \in 2..Len(h) : h[i].alive}

\* the native objects an engine holds
Held(self) ==
    {self.ctx} \cup (IF self.c_proj = NULL THEN {} ELSE {self.c_proj})
               \cup (IF self.area = None THEN {} ELSE {self.area[1]})

\* C11 as stated: every native object a constructor allocates is destroyed
\* once and not used afterwards: what an engine holds is still allocated
\* while the engine lives, and once every returned engine has been dropped
\* nothing remains allocated, whether the constructions succeeded or
\* returned None.
C11_NativeObjectsFreed ==
    /\ \A s \in Slots : Live(s) => Held(Self(s)) \subseteq Allocated(heap)
    /\ (\A s \in Slots : ~Live(s)) => Allocated(heap) = {}

\* C12 as stated: every engine a constructor returns holds a projection
\* handle that is not NULL and not destroyed, also when
\* proj_create_crs_to_crs succeeds and proj_normalize_for_visualization
\* makes no object.
C12_HandleIsValid ==
    \A s \in Slots :
        Live(s) => /\ Self(s).c_proj # NULL
                   /\ Self(s).c_proj \in Allocated(heap)

\* C13: a slice call that returns Err leaves every element of the caller's
\* slice as it was before the call, the elements before the failing one
\* included; the slice is overwritten, with the points returned, only when
\* the call returns Ok.
C13_FailedBatchLeavesSlice ==
    last.op \in BatchOps =>
        /\ last.ret.tag = "Err" => last.slice = last.points
        /\ last.slice # last.points => /\ last.ret.tag = "Ok"
                                       /\ last.slice = last.ret.val

\* a slice call failed on its second element, after the library had
\* transformed the first into another point
C13_Witness ==
    /\ last.op = "convert_array"
    /\ last.ret.tag = "Err"
    /\ LastFailing = 2
    /\ Self(last.slot).c_proj # NULL
    /\ LET first == <<last.points[1][1], last.points[1][2], last.pads[1]>>
           moved == Transform(heap[Self(last.slot).c_proj].op,
                              PJ_DIRECTION_PJ_FWD, first).coord
       IN <<moved[1], moved[2]>> # last.points[1]

ConversionOps == {"convert", "convert_array"}

\* C14 as stated: the variant of the error tells the kind of operation that
\* failed: every Err of convert or convert_array is ProjError::Conversion,
\* every Err of project or project_array is ProjError::Projection.
C14_VariantTellsOperation ==
    (last.op \in Transforms /\ last.ret.tag = "Err") =>
        last.ret.variant = IF last.op \in ConversionOps THEN "Conversion"
                           ELSE "Projection"

====
